---- MODULE Spec2Model ----
(***************************************************************************)
(* STS3215 servo bus driver: packet codec (comm.rs), command dispatcher    *)
(* (Command::send_command) and the ServoState command queue                *)
(* (lerobot/robot.rs).                                                     *)
(*                                                                         *)
(* Byte buffers and slices are functions over 0..n-1, so every offset is   *)
(* the offset the source uses.  A Rust panic (index out of bounds, slice   *)
(* start after end) is the outcome tagged "Panic".                         *)
(***************************************************************************)
EXTENDS Integers, Sequences, FiniteSets

VARIABLES
    fn,               \* codec: the function applied last ("none" before any)
    command,          \* codec: the instruction given to write_buffer
    buffer,           \* codec: the caller's buffer / the reply slice
    ret,              \* codec: what the function returned
    infos,            \* ServoState.infos
    queued_commands,  \* ServoState.queued_commands
    op,               \* ServoState: the method called last ("new" after construction)
    args,             \* ServoState: the arguments of that call
    result,           \* ServoState: what that call returned
    wire,             \* channel calls made by that call, in order
    selected_index,   \* info.rs ServoState.selected_index
    sent,             \* history: the move commands written to the channel so far
    issued            \* history: how many move commands the caller has enqueued

codecVars == <<fn, command, buffer, ret>>
stateVars == <<infos, queued_commands, op, args, result, wire>>
auxVars == <<selected_index, sent, issued>>
vars == <<fn, command, buffer, ret, infos, queued_commands, op, args, result, wire,
          selected_index, sent, issued>>

----------------------------------------------------------------------------
(* Protocol constants, comm.rs:7-20.                                       *)
PING_ID == 1
READ_DATA_ID == 2
WRITE_DATA_ID == 3
GOAL_POSITION_REGISTER == 42
POSITION_REGISTER == 56

(* Model bounds.                                                           *)
MaxData == 2       \* longest data field of an enumerated reply
BufLen == 16       \* size of the buffer the codec's caller supplies

----------------------------------------------------------------------------
(* u8 arithmetic and slices.                                               *)
wrapping_add(a, b) == (a + b) % 256
NotU8(x) == 255 - x

BLen(b) == Cardinality(DOMAIN b)
Slice(b, from, to) == [i \in 0..(to - from - 1) |-> b[from + i]]
Bytes(s) == [i \in 0..(Len(s) - 1) |-> s[i + 1]]
Concat(a, b) ==
    [i \in 0..(BLen(a) + BLen(b) - 1) |-> IF i < BLen(a) THEN a[i] ELSE b[i - BLen(a)]]
ZeroBuffer(n) == [i \in 0..(n - 1) |-> 0]

(* The result shapes.  One record shape for all, so results compare.       *)
NoBytes == Bytes(<< >>)
OkUnit == [tag |-> "Ok", err |-> "", a |-> 0, b |-> 0, id |-> 0, status |-> 0, data |-> NoBytes]
Err(e, x, y) == [OkUnit EXCEPT !.tag = "Err", !.err = e, !.a = x, !.b = y]
Panic == [OkUnit EXCEPT !.tag = "Panic"]
OkResponse(i, s, d) == [OkUnit EXCEPT !.id = i, !.status = s, !.data = d]

(* Instructions, comm.rs:22-26.                                            *)
Ping(id) == [kind |-> "Ping", id |-> id, addr |-> 0, reply_length |-> 0, data |-> NoBytes]
Read(id, addr, n) == [kind |-> "Read", id |-> id, addr |-> addr, reply_length |-> n, data |-> NoBytes]
Write(id, addr, d) == [kind |-> "Write", id |-> id, addr |-> addr, reply_length |-> 0, data |-> d]
NoCommand == [kind |-> "None", id |-> 0, addr |-> 0, reply_length |-> 0, data |-> NoBytes]

----------------------------------------------------------------------------
(* Command::calculate_checksum, comm.rs:63-71.                             *)
RECURSIVE checksum_loop(_, _, _, _)
checksum_loop(buf, index, length, counter) ==
    IF index >= length THEN counter
    ELSE checksum_loop(buf, index + 1, length, wrapping_add(counter, buf[index]))

(* Fault variant: the two header bytes are summed too.                     *)
calculate_checksum_with_header(buf, length) == NotU8(checksum_loop(buf, 0, length, 0))

calculate_checksum(buf, length) == NotU8(checksum_loop(buf, 2, length, 0))

(* Fault variant: Read's checksum lands on the reply-length byte.          *)
checksum_index_read_short(cmd) ==
    CASE cmd.kind = "Ping" -> 5
      [] cmd.kind = "Read" -> 6
      [] cmd.kind = "Write" -> 6 + BLen(cmd.data)

(* The index write_buffer leaves the checksum at, comm.rs:32-57.           *)
checksum_index(cmd) ==
    CASE cmd.kind = "Ping" -> 5
      [] cmd.kind = "Read" -> 7
      [] cmd.kind = "Write" -> 6 + BLen(cmd.data)

(* Fault variant: Write's length field leaves out the instruction byte.   *)
write_fields_short_length(cmd, buf) ==
    LET hdr == [buf EXCEPT ![0] = 255, ![1] = 255, ![2] = cmd.id] IN
    CASE cmd.kind = "Ping" ->
           [hdr EXCEPT ![3] = 2, ![4] = PING_ID]
      [] cmd.kind = "Read" ->
           [hdr EXCEPT ![3] = 4, ![4] = READ_DATA_ID, ![5] = cmd.addr, ![6] = cmd.reply_length]
      [] cmd.kind = "Write" ->
           LET h == [hdr EXCEPT ![3] = (2 + BLen(cmd.data)) % 256,
                                ![4] = WRITE_DATA_ID, ![5] = cmd.addr] IN
           [i \in DOMAIN h |->
               IF i >= 6 /\ i < 6 + BLen(cmd.data) THEN cmd.data[i - 6] ELSE h[i]]

(* The bytes write_buffer stores before the checksum, comm.rs:30-56.       *)
write_fields(cmd, buf) ==
    LET hdr == [buf EXCEPT ![0] = 255, ![1] = 255, ![2] = cmd.id] IN
    CASE cmd.kind = "Ping" ->
           [hdr EXCEPT ![3] = 2, ![4] = PING_ID]
      [] cmd.kind = "Read" ->
           [hdr EXCEPT ![3] = 4, ![4] = READ_DATA_ID, ![5] = cmd.addr, ![6] = cmd.reply_length]
      [] cmd.kind = "Write" ->
           LET h == [hdr EXCEPT ![3] = (3 + BLen(cmd.data)) % 256,
                                ![4] = WRITE_DATA_ID, ![5] = cmd.addr] IN
           [i \in DOMAIN h |->
               IF i >= 6 /\ i < 6 + BLen(cmd.data) THEN cmd.data[i - 6] ELSE h[i]]

(* Command::write_buffer, comm.rs:29-61: the buffer afterwards and the     *)
(* returned length; indexing past the caller's buffer panics.              *)
write_buffer(cmd, buf) ==
    LET ci == checksum_index(cmd) IN
    IF ci >= BLen(buf) THEN [panic |-> TRUE, buffer |-> buf, len |-> 0]
    ELSE LET filled == write_fields(cmd, buf)
             chk == calculate_checksum(filled, ci) IN
         [panic |-> FALSE, buffer |-> [filled EXCEPT ![ci] = chk], len |-> ci + 1]

(* Fault variant: the header is refused only when both bytes are wrong.    *)
parse_response_header_and(buf) ==
    LET n == BLen(buf) IN
    IF n < 2 THEN Panic
    ELSE IF buf[0] # 255 /\ buf[1] # 255 THEN Err("InvalidHeader", buf[0], buf[1])
    ELSE IF n < 5 THEN Panic
    ELSE LET id == buf[2]
             length == buf[3]
             status == buf[4] IN
         IF 3 + length >= n THEN Panic
         ELSE LET checksum == buf[3 + length]
                  calculated_checksum == calculate_checksum(buf, length) IN
              IF NotU8(calculated_checksum) = checksum
              THEN Err("ChecksumMismatch", calculated_checksum, checksum)
              ELSE IF 5 > 5 + length - 2 THEN Panic
              ELSE OkResponse(id, status, Slice(buf, 5, 5 + length - 2))

(* CommandResponse::parse_response, comm.rs:96-121, on the slice           *)
(* &buffer[..read_count].                                                  *)
parse_response(buf) ==
    LET n == BLen(buf) IN
    IF n < 2 THEN Panic
    ELSE IF buf[0] # 255 \/ buf[1] # 255 THEN Err("InvalidHeader", buf[0], buf[1])
    ELSE IF n < 5 THEN Panic
    ELSE LET id == buf[2]
             length == buf[3]
             status == buf[4] IN
         IF 3 + length >= n THEN Panic
         ELSE LET checksum == buf[3 + length]
                  calculated_checksum == calculate_checksum(buf, length) IN
              IF NotU8(calculated_checksum) = checksum
              THEN Err("ChecksumMismatch", calculated_checksum, checksum)
              ELSE IF 5 > 5 + length - 2 THEN Panic
              ELSE OkResponse(id, status, Slice(buf, 5, 5 + length - 2))

(* Option<u16>.                                                            *)
None == [some |-> FALSE, v |-> 0]
Some(x) == [some |-> TRUE, v |-> x]

(* Fault variant: most significant byte first.                            *)
to_be_bytes(x) == Bytes(<<x \div 256, x % 256>>)

(* u16::to_le_bytes.                                                       *)
to_le_bytes(x) == Bytes(<<x % 256, x \div 256>>)

(* The payload write_position builds, comm.rs:172-185: data[..len].        *)
position_data(position, speed, acc) ==
    LET d0 == to_le_bytes(position)
        d1 == IF speed.some THEN Concat(d0, to_le_bytes(speed.v)) ELSE d0
    IN  IF acc.some THEN Concat(d1, to_le_bytes(acc.v)) ELSE d1

----------------------------------------------------------------------------
(* The codec on its own: write_buffer or parse_response applied once to an *)
(* enumerated instruction or reply byte sequence (both are pure).          *)

(* Sum of the bytes at offsets lo..hi (no wrapping).                       *)
RECURSIVE SumRange(_, _, _)
SumRange(b, lo, hi) == IF lo > hi THEN 0 ELSE b[lo] + SumRange(b, lo + 1, hi)

(* A well-formed status reply as the device sends it (spec section 6):     *)
(* FF FF id length status data checksum, length = data length + 2.         *)
WellFormedReply(id, status, data) ==
    LET body == Concat(Bytes(<<255, 255, id, BLen(data) + 2, status>>), data) IN
    Concat(body, Bytes(<<255 - (SumRange(body, 2, BLen(body) - 1) % 256)>>))

ServoIdInputs == {1, 2, 253}
StatusInputs == {0, 1, 32}
DataByteInputs == {0, 1, 255}
MutationBytes == {0, 2, 85, 255}

RECURSIVE DataOfLen(_)
DataOfLen(n) ==
    IF n = 0 THEN {NoBytes}
    ELSE {Concat(d, Bytes(<<x>>)) : d \in DataOfLen(n - 1), x \in DataByteInputs}

DataInputs == UNION {DataOfLen(n) : n \in 0..MaxData}

WellFormedInputs ==
    {WellFormedReply(i, s, d) : i \in ServoIdInputs, s \in StatusInputs, d \in DataInputs}

(* One byte of a well-formed reply overwritten, nothing recomputed.        *)
MutatedInputs ==
    UNION {{[r EXCEPT ![p] = x] : p \in DOMAIN r, x \in MutationBytes} : r \in WellFormedInputs}

(* A read that delivered only the first k bytes of a reply.                *)
TruncatedInputs ==
    UNION {{Slice(r, 0, k) : k \in 0..(BLen(r) - 1)} : r \in WellFormedInputs}

ReplyInputs == WellFormedInputs \cup MutatedInputs \cup TruncatedInputs

PositionInputs == {0, 2048, 4095}
SpeedInputs == {None, Some(0), Some(1000)}
AccInputs == {None, Some(1000)}
AddrInputs == {GOAL_POSITION_REGISTER, POSITION_REGISTER}

PayloadInputs ==
    {position_data(p, s, a) : p \in PositionInputs, s \in SpeedInputs, a \in AccInputs}
        \cup {NoBytes, Bytes(<<1>>), Bytes(<<255, 255, 255>>)}

CommandInputs ==
    {Ping(i) : i \in ServoIdInputs}
        \cup {Read(i, r, n) : i \in ServoIdInputs, r \in AddrInputs, n \in 1..2}
        \cup {Write(i, r, d) : i \in ServoIdInputs, r \in AddrInputs, d \in PayloadInputs}

(* write_buffer on a zero-filled caller buffer (comm.rs:215-216).          *)
Encode ==
    \E c \in CommandInputs :
        LET w == write_buffer(c, buffer) IN
        /\ fn = "none"
        /\ ~w.panic
        /\ fn' = "write_buffer"
        /\ command' = c
        /\ buffer' = w.buffer
        /\ ret' = w.len
        /\ UNCHANGED <<stateVars, auxVars>>

(* parse_response on the bytes a read delivered (comm.rs:84).              *)
Decode ==
    \E r \in ReplyInputs :
        /\ fn = "none"
        /\ fn' = "parse_response"
        /\ command' = NoCommand
        /\ buffer' = r
        /\ ret' = parse_response(r)
        /\ UNCHANGED <<stateVars, auxVars>>

(* The codec's part of the initial state: nothing applied yet, a           *)
(* zero-filled caller buffer (comm.rs:215).                                *)
InitCodec ==
    /\ fn = "none"
    /\ command = NoCommand
    /\ buffer = ZeroBuffer(BufLen)
    /\ ret = OkUnit

NextCodec == Encode \/ Decode

----------------------------------------------------------------------------
(* Command dispatcher.  A channel behaviour says what the port does during *)
(* one send_command: whether write_all succeeds, whether read succeeds,    *)
(* and the bytes read delivers.                                            *)
Channel(w, r, bytes) == [write_ok |-> w, read_ok |-> r, reply |-> bytes]

WriteCall(packet) == [call |-> "write_all", bytes |-> packet]
ReadCall == [call |-> "read", bytes |-> NoBytes]

(* Fault variant: a failed read is followed by a second write and read.    *)
send_command_retry(cmd, buf, ch) ==
    LET w == write_buffer(cmd, buf)
        packet == Slice(w.buffer, 0, w.len)
    IN  IF w.panic THEN [ret |-> Panic, wire |-> << >>]
        ELSE IF ~ch.write_ok
        THEN [ret |-> Err("WriteError", 0, 0), wire |-> <<WriteCall(packet)>>]
        ELSE IF ~ch.read_ok
        THEN [ret |-> Err("ReadError", 0, 0),
              wire |-> <<WriteCall(packet), ReadCall, WriteCall(packet), ReadCall>>]
        ELSE [ret |-> parse_response(ch.reply), wire |-> <<WriteCall(packet), ReadCall>>]

(* Command::send_command, comm.rs:73-85: the result and the channel calls. *)
send_command(cmd, buf, ch) ==
    LET w == write_buffer(cmd, buf)
        packet == Slice(w.buffer, 0, w.len)
    IN  IF w.panic THEN [ret |-> Panic, wire |-> << >>]
        ELSE IF ~ch.write_ok
        THEN [ret |-> Err("WriteError", 0, 0), wire |-> <<WriteCall(packet)>>]
        ELSE IF ~ch.read_ok
        THEN [ret |-> Err("ReadError", 0, 0), wire |-> <<WriteCall(packet), ReadCall>>]
        ELSE [ret |-> parse_response(ch.reply), wire |-> <<WriteCall(packet), ReadCall>>]

(* The earlier send_command of lib.rs:107-114: a failed read is mapped to  *)
(* WriteError too, and the Option parse_response returns (None where the   *)
(* decoder of comm.rs returns Err) is unwrapped.                           *)
lib_send_command(cmd, buf, ch) ==
    LET w == write_buffer(cmd, buf)
        packet == Slice(w.buffer, 0, w.len)
    IN  IF w.panic THEN [ret |-> Panic, wire |-> << >>]
        ELSE IF ~ch.write_ok
        THEN [ret |-> Err("WriteError", 0, 0), wire |-> <<WriteCall(packet)>>]
        ELSE IF ~ch.read_ok
        THEN [ret |-> Err("WriteError", 0, 0), wire |-> <<WriteCall(packet), ReadCall>>]
        ELSE [ret |-> IF parse_response(ch.reply).tag = "Ok" THEN parse_response(ch.reply)
                      ELSE Panic,
              wire |-> <<WriteCall(packet), ReadCall>>]

(* write_position, comm.rs:164-189.                                        *)
write_position(buf, servo_id, position, speed, acc, ch) ==
    send_command(Write(servo_id, GOAL_POSITION_REGISTER, position_data(position, speed, acc)),
                 buf, ch)

----------------------------------------------------------------------------
(* ServoState, lerobot/robot.rs:14-153.                                    *)
COMMAND_QUEUE_SIZE == 16
POSITION_MODULUS == 4096

(* The actuator ids the state is constructed with (indices 0..N-1).        *)
servo_ids == Bytes(<<1, 2>>)
ServoIndexInputs == DOMAIN servo_ids

ServoPositionCommand(id, position, speed, acc) ==
    [id |-> id, position |-> position, speed |-> speed, acc |-> acc]

(* ServoInfo::default(), robot.rs:21-33.                                   *)
DefaultServoInfo ==
    [id |-> 0, position |-> 0, goal_position |-> 0, speed |-> 0, temperature |-> 0,
     load |-> 0, voltage |-> 0, current |-> 0, is_moving |-> FALSE, has_error |-> FALSE]

(* Fault variant: a full queue overwrites its newest entry.                *)
push_replace_last(queue, item) ==
    IF Len(queue) < COMMAND_QUEUE_SIZE
    THEN [queue |-> Append(queue, item), ret |-> OkUnit]
    ELSE [queue |-> [queue EXCEPT ![Len(queue)] = item], ret |-> Err("CommandOverflow", 0, 0)]

(* Fault variant: the capacity test is off by one.                         *)
push_off_by_one(queue, item) ==
    IF Len(queue) <= COMMAND_QUEUE_SIZE
    THEN [queue |-> Append(queue, item), ret |-> OkUnit]
    ELSE [queue |-> queue, ret |-> Err("CommandOverflow", 0, 0)]

(* heapless::Vec::push on queued_commands, robot.rs:63-68, 78-83.          *)
push(queue, item) ==
    IF Len(queue) < COMMAND_QUEUE_SIZE
    THEN [queue |-> Append(queue, item), ret |-> OkUnit]
    ELSE [queue |-> queue, ret |-> Err("CommandOverflow", 0, 0)]

(* Fault variant: an empty queue yields a default command.                 *)
pop_or_default(queue) ==
    IF Len(queue) = 0 THEN [some |-> TRUE, queue |-> queue, item |-> ServoPositionCommand(0, 0, None, None)]
    ELSE [some |-> TRUE, queue |-> SubSeq(queue, 1, Len(queue) - 1), item |-> queue[Len(queue)]]

(* Fault variant: taking the newest command clears the queue.              *)
pop_and_clear(queue) ==
    IF Len(queue) = 0 THEN [some |-> FALSE, queue |-> queue, item |-> ServoPositionCommand(0, 0, None, None)]
    ELSE [some |-> TRUE, queue |-> << >>, item |-> queue[Len(queue)]]

(* Fault variant: the oldest command is taken (first-in-first-out).        *)
pop_front(queue) ==
    IF Len(queue) = 0 THEN [some |-> FALSE, queue |-> queue, item |-> ServoPositionCommand(0, 0, None, None)]
    ELSE [some |-> TRUE, queue |-> SubSeq(queue, 2, Len(queue)), item |-> queue[1]]

(* Fault variant: the newest command is read but stays in the queue.       *)
pop_keep(queue) ==
    IF Len(queue) = 0 THEN [some |-> FALSE, queue |-> queue, item |-> ServoPositionCommand(0, 0, None, None)]
    ELSE [some |-> TRUE, queue |-> queue, item |-> queue[Len(queue)]]

(* heapless::Vec::pop on queued_commands, robot.rs:91.                     *)
pop(queue) ==
    IF Len(queue) = 0 THEN [some |-> FALSE, queue |-> queue, item |-> ServoPositionCommand(0, 0, None, None)]
    ELSE [some |-> TRUE, queue |-> SubSeq(queue, 1, Len(queue) - 1), item |-> queue[Len(queue)]]

(* Fault variant: the goal is stored for every actuator.                   *)
send_absolute_move_all(st, servo_index, position, speed, acc) ==
    LET servo_id == servo_ids[servo_index]
        p == push(st.queued_commands, ServoPositionCommand(servo_id, position, speed, acc))
    IN  [infos |-> [j \in DOMAIN st.infos |-> [st.infos[j] EXCEPT !.goal_position = position]],
         queued_commands |-> p.queue,
         ret |-> p.ret]

(* ServoState::send_absolute_move_command, robot.rs:60-69.                 *)
send_absolute_move_command(st, servo_index, position, speed, acc) ==
    LET servo_id == servo_ids[servo_index]
        p == push(st.queued_commands, ServoPositionCommand(servo_id, position, speed, acc))
    IN  [infos |-> [st.infos EXCEPT ![servo_index].goal_position = position],
         queued_commands |-> p.queue,
         ret |-> p.ret]

(* `goal_position as i16 + delta`, robot.rs:72: the u16 is reinterpreted   *)
(* as i16; the sum leaves i16 when overflow is TRUE.                       *)
as_i16(x) == IF x >= 32768 THEN x - 65536 ELSE x
wrap_i16(x) == ((x + 32768) % 65536) - 32768
as_u16(x) == x % 65536
rem_euclid(x, m) == x % m

relative_goal(goal_position, delta) ==
    LET new_position == as_i16(goal_position) + delta IN
    [overflow |-> new_position > 32767 \/ new_position < -32768,
     goal |-> as_u16(rem_euclid(wrap_i16(new_position), POSITION_MODULUS))]

(* Fault variant: the move is stored as the measured position as well.     *)
send_relative_move_sets_position(st, servo_index, delta, speed, acc) ==
    LET servo_id == servo_ids[servo_index]
        goal == relative_goal(st.infos[servo_index].goal_position, delta).goal
        moved == [st.infos EXCEPT ![servo_index].goal_position = goal,
                                  ![servo_index].position = goal]
        p == push(st.queued_commands,
                  ServoPositionCommand(servo_id, moved[servo_index].goal_position, speed, acc))
    IN  [infos |-> moved, queued_commands |-> p.queue, ret |-> p.ret]

(* ServoState::send_relative_move_command, robot.rs:70-84 (the sum did not *)
(* overflow, or the build wraps).                                          *)
send_relative_move_command(st, servo_index, delta, speed, acc) ==
    LET servo_id == servo_ids[servo_index]
        goal == relative_goal(st.infos[servo_index].goal_position, delta).goal
        moved == [st.infos EXCEPT ![servo_index].goal_position = goal]
        p == push(st.queued_commands,
                  ServoPositionCommand(servo_id, moved[servo_index].goal_position, speed, acc))
    IN  [infos |-> moved, queued_commands |-> p.queue, ret |-> p.ret]

(* What the call can do in the builds there are: where the i16 sum         *)
(* overflows, a build with overflow checks panics at robot.rs:72 and a     *)
(* build without them wraps.                                               *)
send_relative_move_builds(st, servo_index, delta, speed, acc) ==
    {send_relative_move_command(st, servo_index, delta, speed, acc)}
    \cup
    (IF relative_goal(st.infos[servo_index].goal_position, delta).overflow
     THEN {[infos |-> st.infos, queued_commands |-> st.queued_commands, ret |-> Panic]}
     ELSE {})

(* Fault variant: a command whose flush fails stays queued for a retry.    *)
process_queued_commands_requeue(st, buf, ch) ==
    LET popped == pop(st.queued_commands) IN
    IF popped.some
    THEN LET cmd == popped.item
             response == write_position(buf, cmd.id, cmd.position, cmd.speed, cmd.acc, ch)
             failed == response.ret.tag # "Ok" \/ response.ret.status # 0
         IN  [infos |-> st.infos,
              queued_commands |-> IF failed THEN st.queued_commands ELSE popped.queue,
              wire |-> response.wire,
              ret |-> IF response.ret.tag # "Ok" THEN response.ret
                      ELSE IF response.ret.status = 0 THEN OkUnit
                      ELSE Err("StatusError", response.ret.status, 0)]
    ELSE [infos |-> st.infos, queued_commands |-> st.queued_commands,
          wire |-> << >>, ret |-> OkUnit]

(* ServoState::process_queued_commands, robot.rs:86-113.                   *)
process_queued_commands(st, buf, ch) ==
    LET popped == pop(st.queued_commands) IN
    IF popped.some
    THEN LET cmd == popped.item
             response == write_position(buf, cmd.id, cmd.position, cmd.speed, cmd.acc, ch)
         IN  [infos |-> st.infos,
              queued_commands |-> popped.queue,
              wire |-> response.wire,
              ret |-> IF response.ret.tag # "Ok" THEN response.ret
                      ELSE IF response.ret.status = 0 THEN OkUnit
                      ELSE Err("StatusError", response.ret.status, 0)]
    ELSE [infos |-> st.infos, queued_commands |-> st.queued_commands,
          wire |-> << >>, ret |-> OkUnit]

(* Register reads.  The crate-level read_u16_register / read_u8_register   *)
(* wrappers that robot.rs:9-10 imports: one Read instruction, then the     *)
(* first two (one) data bytes decoded little-endian (spec 4.3).            *)
OkValue(v) == [OkUnit EXCEPT !.a = v]
STATUS_REGISTER == 65
MOVING_REGISTER == 66
CURRENT_REGISTER == 67
SPEED_REGISTER == 58
LOAD_REGISTER == 60
VOLTAGE_REGISTER == 62
TEMPERATURE_REGISTER == 63

read_register(buf, servo_id, register, width, ch) ==
    LET r == send_command(Read(servo_id, register, width), buf, ch) IN
    [wire |-> r.wire,
     ret |-> IF r.ret.tag # "Ok" THEN r.ret
             ELSE IF BLen(r.ret.data) < width THEN Err("InsufficientData", 0, 0)
             ELSE IF width = 2 THEN OkValue(r.ret.data[0] + 256 * r.ret.data[1])
             ELSE OkValue(r.ret.data[0])]

(* The eight reads of read_servo_info in source order, robot.rs:133-140,   *)
(* each with its register and width (robot.rs:224-265).                    *)
Fields ==
    << [name |-> "position", register |-> POSITION_REGISTER, width |-> 2],
       [name |-> "speed", register |-> SPEED_REGISTER, width |-> 2],
       [name |-> "temperature", register |-> TEMPERATURE_REGISTER, width |-> 1],
       [name |-> "load", register |-> LOAD_REGISTER, width |-> 2],
       [name |-> "voltage", register |-> VOLTAGE_REGISTER, width |-> 1],
       [name |-> "current", register |-> CURRENT_REGISTER, width |-> 2],
       [name |-> "is_moving", register |-> MOVING_REGISTER, width |-> 1],
       [name |-> "has_error", register |-> STATUS_REGISTER, width |-> 1] >>

(* The outcomes of the eight register reads of one actuator when the       *)
(* channel behaves as chs[f] during the f-th.                              *)
register_reads(buf, servo_id, chs) ==
    [f \in 1..Len(Fields) |->
        read_register(buf, servo_id, Fields[f].register, Fields[f].width, chs[f])]

(* unwrap_or, robot.rs:133-140.                                            *)
unwrap_or(r, default) == IF r.tag = "Ok" THEN r.a ELSE default

(* Fault variant: after a read has failed the remaining fields are not     *)
(* read and take their fallbacks.                                          *)
read_servo_info_stop_at_failure(servo_id, rd) ==
    LET panics == {f \in 1..Len(Fields) : rd[f].ret.tag = "Panic"}
        last == IF panics = {} THEN Len(Fields)
                ELSE CHOOSE f \in panics : \A g \in panics : f <= g
        RECURSIVE WireUpTo(_)
        WireUpTo(f) == IF f = 0 THEN << >> ELSE WireUpTo(f - 1) \o rd[f].wire
        good(f) == \A g \in 1..f : rd[g].ret.tag = "Ok"
        position == IF good(1) THEN rd[1].ret.a ELSE 0
    IN  [panic |-> panics # {},
         wire |-> WireUpTo(last),
         info |-> [id |-> servo_id,
                   position |-> position,
                   goal_position |-> position,
                   speed |-> IF good(2) THEN rd[2].ret.a ELSE 0,
                   temperature |-> IF good(3) THEN rd[3].ret.a ELSE 0,
                   load |-> IF good(4) THEN rd[4].ret.a ELSE 0,
                   voltage |-> IF good(5) THEN rd[5].ret.a ELSE 0,
                   current |-> IF good(6) THEN rd[6].ret.a ELSE 0,
                   is_moving |-> IF good(7) THEN rd[7].ret.a # 0 ELSE FALSE,
                   has_error |-> IF good(8) THEN rd[8].ret.a # 0 ELSE TRUE]]

(* Fault variant: the refresh resets the goal to 0 instead of copying the  *)
(* position read.                                                          *)
read_servo_info_zero_goal(servo_id, rd) ==
    LET panics == {f \in 1..Len(Fields) : rd[f].ret.tag = "Panic"}
        last == IF panics = {} THEN Len(Fields)
                ELSE CHOOSE f \in panics : \A g \in panics : f <= g
        RECURSIVE WireUpTo(_)
        WireUpTo(f) == IF f = 0 THEN << >> ELSE WireUpTo(f - 1) \o rd[f].wire
    IN  [panic |-> panics # {},
         wire |-> WireUpTo(last),
         info |-> [id |-> servo_id,
                   position |-> unwrap_or(rd[1].ret, 0),
                   goal_position |-> 0,
                   speed |-> unwrap_or(rd[2].ret, 0),
                   temperature |-> unwrap_or(rd[3].ret, 0),
                   load |-> unwrap_or(rd[4].ret, 0),
                   voltage |-> unwrap_or(rd[5].ret, 0),
                   current |-> unwrap_or(rd[6].ret, 0),
                   is_moving |-> unwrap_or(rd[7].ret, 0) # 0,
                   has_error |-> IF rd[8].ret.tag = "Ok" THEN rd[8].ret.a # 0 ELSE TRUE]]

(* Fault variant: the call returns at the first read that fails, as with   *)
(* the ? operator, so the reads after it are not issued.                   *)
read_servo_info_return_early(servo_id, rd) ==
    LET failed == {f \in 1..Len(Fields) : rd[f].ret.tag # "Ok"}
        last == IF failed = {} THEN Len(Fields)
                ELSE CHOOSE f \in failed : \A g \in failed : f <= g
        RECURSIVE WireUpTo(_)
        WireUpTo(f) == IF f = 0 THEN << >> ELSE WireUpTo(f - 1) \o rd[f].wire
        position == unwrap_or(rd[1].ret, 0)
    IN  [panic |-> \E f \in failed : rd[f].ret.tag = "Panic",
         wire |-> WireUpTo(last),
         info |-> [id |-> servo_id,
                   position |-> position,
                   goal_position |-> position,
                   speed |-> unwrap_or(rd[2].ret, 0),
                   temperature |-> unwrap_or(rd[3].ret, 0),
                   load |-> unwrap_or(rd[4].ret, 0),
                   voltage |-> unwrap_or(rd[5].ret, 0),
                   current |-> unwrap_or(rd[6].ret, 0),
                   is_moving |-> unwrap_or(rd[7].ret, 0) # 0,
                   has_error |-> IF rd[8].ret.tag = "Ok" THEN rd[8].ret.a # 0 ELSE TRUE]]

(* read_servo_info, robot.rs:128-153, given the outcomes rd of its eight   *)
(* reads; a read that panics ends the call.                                *)
read_servo_info(servo_id, rd) ==
    LET panics == {f \in 1..Len(Fields) : rd[f].ret.tag = "Panic"}
        last == IF panics = {} THEN Len(Fields)
                ELSE CHOOSE f \in panics : \A g \in panics : f <= g
        RECURSIVE WireUpTo(_)
        WireUpTo(f) == IF f = 0 THEN << >> ELSE WireUpTo(f - 1) \o rd[f].wire
        position == unwrap_or(rd[1].ret, 0)
    IN  [panic |-> panics # {},
         wire |-> WireUpTo(last),
         info |-> [id |-> servo_id,
                   position |-> position,
                   goal_position |-> position,
                   speed |-> unwrap_or(rd[2].ret, 0),
                   temperature |-> unwrap_or(rd[3].ret, 0),
                   load |-> unwrap_or(rd[4].ret, 0),
                   voltage |-> unwrap_or(rd[5].ret, 0),
                   current |-> unwrap_or(rd[6].ret, 0),
                   is_moving |-> unwrap_or(rd[7].ret, 0) # 0,
                   has_error |-> IF rd[8].ret.tag = "Ok" THEN rd[8].ret.a # 0 ELSE TRUE]]

(* ServoState::update, robot.rs:52-58, from actuator `index` on; reads[i]  *)
(* are the read outcomes for actuator i.                                   *)
RECURSIVE update_from(_, _, _)
update_from(st, index, reads) ==
    IF index >= BLen(servo_ids) THEN st
    ELSE LET r == read_servo_info(servo_ids[index], reads[index]) IN
         IF r.panic
         THEN [st EXCEPT !.wire = @ \o r.wire, !.ret = Panic]
         ELSE update_from([st EXCEPT !.infos[index] = r.info, !.wire = @ \o r.wire],
                          index + 1, reads)

update(st, reads) ==
    update_from([infos |-> st.infos, queued_commands |-> st.queued_commands,
                 wire |-> << >>, ret |-> OkUnit], 0, reads)

----------------------------------------------------------------------------
(* The ServoState machine: the caller's requests and the channel's         *)
(* behaviour are the inputs.                                               *)
MaxVaried == 1     \* queue depth up to which move requests are chosen freely

AbsPositionInputs == {100}
DeltaInputs == {-2048, 2048}
MoveOptionInputs == {<<None, None>>}

(* Above MaxVaried queued commands the caller repeats this one request     *)
(* until the queue is full.                                                *)
FillRequest == [kind |-> "abs", servo_index |-> 0, value |-> 100, speed |-> None, acc |-> None]

VariedRequests ==
    {[kind |-> "abs", servo_index |-> i, value |-> v, speed |-> o[1], acc |-> o[2]] :
        i \in ServoIndexInputs, v \in AbsPositionInputs, o \in MoveOptionInputs}
    \cup
    {[kind |-> "rel", servo_index |-> i, value |-> d, speed |-> o[1], acc |-> o[2]] :
        i \in ServoIndexInputs, d \in DeltaInputs, o \in MoveOptionInputs}

RequestInputs(queue) ==
    IF Len(queue) < MaxVaried \/ Len(queue) >= COMMAND_QUEUE_SIZE
    THEN VariedRequests \cup {FillRequest}
    ELSE {FillRequest}

(* What the channel can do while one move command is flushed.              *)
FlushChannelInputs ==
    { Channel(FALSE, FALSE, NoBytes),
      Channel(TRUE, FALSE, NoBytes),
      Channel(TRUE, TRUE, WellFormedReply(1, 0, NoBytes)),
      Channel(TRUE, TRUE, WellFormedReply(1, 32, NoBytes)),
      Channel(TRUE, TRUE, WellFormedReply(253, 0, NoBytes)),
      Channel(TRUE, TRUE, Bytes(<<0, 255, 1, 2, 0, 252>>)),
      Channel(TRUE, TRUE, NoBytes) }

(* What the device holds in each register.                                 *)
DeviceData(f) ==
    CASE f = 1 -> to_le_bytes(100)
      [] f = 2 -> to_le_bytes(5)
      [] f = 3 -> Bytes(<<30>>)
      [] f = 4 -> to_le_bytes(7)
      [] f = 5 -> Bytes(<<120>>)
      [] f = 6 -> to_le_bytes(9)
      [] f = 7 -> Bytes(<<1>>)
      [] f = 8 -> Bytes(<<0>>)

GoodBehaviour(servo_id) ==
    [f \in 1..Len(Fields) |-> Channel(TRUE, TRUE, WellFormedReply(servo_id, 0, DeviceData(f)))]

FailedBehaviour(servo_id, f) ==
    [GoodBehaviour(servo_id) EXCEPT ![f] = Channel(TRUE, FALSE, NoBytes)]

AllGood == [i \in ServoIndexInputs |-> GoodBehaviour(servo_ids[i])]

UpdateBehaviours ==
    {AllGood, [AllGood EXCEPT ![1] = FailedBehaviour(servo_ids[1], 1)]}

(* The read outcomes of one update pass under each behaviour.              *)
UpdateInputs ==
    {[i \in ServoIndexInputs |-> register_reads(ZeroBuffer(BufLen), servo_ids[i], b[i])] :
        b \in UpdateBehaviours}

State == [infos |-> infos, queued_commands |-> queued_commands]
Alive == result.tag # "Panic"

SendAbsoluteMove ==
    \E r \in RequestInputs(queued_commands) :
        /\ Alive
        /\ r.kind = "abs"
        /\ \E s \in {send_absolute_move_command(State, r.servo_index, r.value, r.speed, r.acc)} :
           /\ infos' = s.infos
           /\ queued_commands' = s.queued_commands
           /\ result' = s.ret
        /\ op' = "send_absolute_move_command"
        /\ args' = r
        /\ wire' = << >>
        /\ UNCHANGED <<codecVars, auxVars>>

SendRelativeMove ==
    \E r \in RequestInputs(queued_commands) :
        /\ Alive
        /\ r.kind = "rel"
        /\ \E s \in send_relative_move_builds(State, r.servo_index, r.value, r.speed, r.acc) :
           /\ infos' = s.infos
           /\ queued_commands' = s.queued_commands
           /\ result' = s.ret
        /\ op' = "send_relative_move_command"
        /\ args' = r
        /\ wire' = << >>
        /\ UNCHANGED <<codecVars, auxVars>>

ProcessQueuedCommands ==
    \E ch \in FlushChannelInputs :
        /\ Alive
        /\ \E s \in {process_queued_commands(State, ZeroBuffer(BufLen), ch)} :
           /\ infos' = s.infos
           /\ queued_commands' = s.queued_commands
           /\ result' = s.ret
           /\ wire' = s.wire
        /\ op' = "process_queued_commands"
        /\ args' = ch
        /\ UNCHANGED <<codecVars, auxVars>>

Update ==
    \E b \in UpdateInputs :
        /\ Alive
        /\ \E s \in {update(State, b)} :
           /\ infos' = s.infos
           /\ queued_commands' = s.queued_commands
           /\ result' = s.ret
           /\ wire' = s.wire
        /\ op' = "update"
        /\ args' = b
        /\ UNCHANGED <<codecVars, auxVars>>

(* ServoState::new, robot.rs:43-49.                                        *)
InitState ==
    /\ infos = [i \in ServoIndexInputs |-> DefaultServoInfo]
    /\ queued_commands = << >>
    /\ op = "new"
    /\ args = << >>
    /\ result = OkUnit
    /\ wire = << >>

(* info.rs ServoState::new (info.rs:38-45) and the empty history.          *)
InitAux ==
    /\ selected_index = 0
    /\ sent = << >>
    /\ issued = 0

Init == InitCodec /\ InitState /\ InitAux

Next == SendAbsoluteMove \/ SendRelativeMove \/ ProcessQueuedCommands \/ Update

Spec == Init /\ [][Next]_vars

SpecCodec == Init /\ [][NextCodec]_vars

----------------------------------------------------------------------------
(* The command queue with a history of what went out: the caller enqueues  *)
(* absolute moves whose positions are 1, 2, 3, ... (so each command can be *)
(* told from every other) and flushes them under every channel behaviour.  *)
MaxIssued == 3     \* how many move commands the caller enqueues

(* The move command a Write packet on the channel carries (comm.rs:44-52,  *)
(* 175) and whether its flush returned Ok.                                 *)
PacketCommand(c, r) ==
    [id |-> c.bytes[2], position |-> c.bytes[6] + 256 * c.bytes[7], ok |-> r.tag = "Ok"]

SentBy(w, r) ==
    LET writes == SelectSeq(w, LAMBDA c : c.call = "write_all") IN
    [k \in 1..Len(writes) |-> PacketCommand(writes[k], r)]

FlushEnqueue ==
    \E i \in ServoIndexInputs :
        /\ Alive
        /\ issued < MaxIssued
        /\ \E s \in {send_absolute_move_command(State, i, issued + 1, None, None)} :
           /\ infos' = s.infos
           /\ queued_commands' = s.queued_commands
           /\ result' = s.ret
        /\ op' = "send_absolute_move_command"
        /\ args' = [kind |-> "abs", servo_index |-> i, value |-> issued + 1,
                    speed |-> None, acc |-> None]
        /\ wire' = << >>
        /\ issued' = issued + 1
        /\ UNCHANGED <<codecVars, selected_index, sent>>

FlushTick ==
    \E ch \in FlushChannelInputs :
        /\ Alive
        /\ \E s \in {process_queued_commands(State, ZeroBuffer(BufLen), ch)} :
           /\ infos' = s.infos
           /\ queued_commands' = s.queued_commands
           /\ result' = s.ret
           /\ wire' = s.wire
           /\ sent' = sent \o SentBy(s.wire, s.ret)
        /\ op' = "process_queued_commands"
        /\ args' = ch
        /\ UNCHANGED <<codecVars, selected_index, issued>>

NextFlush == FlushEnqueue \/ FlushTick

SpecFlush == Init /\ [][NextFlush]_vars

----------------------------------------------------------------------------
(* Relative moves on their own: the cache holds a measured position, then  *)
(* the caller issues up to MaxMoves relative moves.                        *)
MaxMoves == 3      \* how many moves the caller issues in a row

MoveGoalInputs == {0, 100, 4095}
MoveDeltaInputs == {-90, -20, 20, -32768, 32767}

(* ServoState::new followed by a refresh that read position g from every  *)
(* actuator (robot.rs:141-144: goal_position: position).                   *)
InitMove ==
    \E g \in MoveGoalInputs :
        /\ infos = [i \in ServoIndexInputs |->
                      [DefaultServoInfo EXCEPT !.id = servo_ids[i], !.position = g,
                                               !.goal_position = g]]
        /\ queued_commands = << >>
        /\ op = "new"
        /\ args = << >>
        /\ result = OkUnit
        /\ wire = << >>

MoveRelative ==
    \E i \in ServoIndexInputs, d \in MoveDeltaInputs :
        /\ Alive
        /\ Len(queued_commands) < MaxMoves
        /\ \E s \in send_relative_move_builds(State, i, d, None, None) :
           /\ infos' = s.infos
           /\ queued_commands' = s.queued_commands
           /\ result' = s.ret
        /\ op' = "send_relative_move_command"
        /\ args' = [kind |-> "rel", servo_index |-> i, value |-> d, speed |-> None, acc |-> None]
        /\ wire' = << >>
        /\ UNCHANGED <<codecVars, auxVars>>

MoveAbsInputs == {2048, 32768}

MoveAbsolute ==
    \E i \in ServoIndexInputs, p \in MoveAbsInputs :
        /\ Alive
        /\ Len(queued_commands) < MaxMoves
        /\ \E s \in {send_absolute_move_command(State, i, p, None, None)} :
           /\ infos' = s.infos
           /\ queued_commands' = s.queued_commands
           /\ result' = s.ret
        /\ op' = "send_absolute_move_command"
        /\ args' = [kind |-> "abs", servo_index |-> i, value |-> p, speed |-> None, acc |-> None]
        /\ wire' = << >>
        /\ UNCHANGED <<codecVars, auxVars>>

NextMove == MoveRelative \/ MoveAbsolute

InitSpecMove == InitCodec /\ InitMove /\ InitAux

SpecMove == InitSpecMove /\ [][NextMove]_vars

----------------------------------------------------------------------------
(* info.rs: the ServoState with a selected actuator (info.rs:36-86).       *)
InfoPositionInputs == {0, 100}
InfoDeltaInputs == {-90, -20, 20, 32767}

(* Fault variant: the index is advanced without the bound.                 *)
select_next_unbounded(index) == index + 1

(* ServoState::select_next, info.rs:55-59 (N.saturating_sub(1)).           *)
select_next(index) ==
    IF index < (IF BLen(servo_ids) = 0 THEN 0 ELSE BLen(servo_ids) - 1) THEN index + 1 ELSE index

(* ServoState::select_previous, info.rs:61-65.                             *)
select_previous(index) == IF index > 0 THEN index - 1 ELSE index

(* ServoState::selected_servo_id, info.rs:67-69.                           *)
selected_servo_id(index) == servo_ids[index]

(* Fault variant: the move is applied to the measured position field.      *)
move_position_on_position(st, index, delta) ==
    LET id == selected_servo_id(index)
        goal == relative_goal(st.infos[index].position, delta).goal
        moved == [st.infos EXCEPT ![index].position = goal]
    IN  [infos |-> moved,
         queued_commands |-> Append(st.queued_commands,
                                    ServoPositionCommand(id, moved[index].position, None, None)),
         ret |-> OkUnit]

(* ServoState::move_position, info.rs:71-86 (time and accel are the speed  *)
(* and acc fields of the command, both None; Vec::push cannot fail).       *)
move_position(st, index, delta) ==
    LET id == selected_servo_id(index)
        goal == relative_goal(st.infos[index].goal_position, delta).goal
        moved == [st.infos EXCEPT ![index].goal_position = goal]
    IN  [infos |-> moved,
         queued_commands |-> Append(st.queued_commands,
                                    ServoPositionCommand(id, moved[index].goal_position, None, None)),
         ret |-> OkUnit]

(* What the call can do in the builds there are (the i16 sum at info.rs:74 *)
(* panics where it overflows in a build with overflow checks).             *)
move_position_builds(st, index, delta) ==
    {move_position(st, index, delta)}
    \cup
    (IF relative_goal(st.infos[index].goal_position, delta).overflow
     THEN {[infos |-> st.infos, queued_commands |-> st.queued_commands, ret |-> Panic]}
     ELSE {})

(* ServoState::new(&servo_ids), then the caller stores a position in every *)
(* ServoInfo as the test does (info.rs:247-248).                           *)
InitInfo ==
    \E p \in InfoPositionInputs :
        /\ infos = [i \in ServoIndexInputs |-> [DefaultServoInfo EXCEPT !.position = p]]
        /\ queued_commands = << >>
        /\ op = "new"
        /\ args = << >>
        /\ result = OkUnit
        /\ wire = << >>

SelectNext ==
    /\ Alive
    /\ selected_index' = select_next(selected_index)
    /\ op' = "select_next"
    /\ args' = [kind |-> "select", servo_index |-> selected_index, value |-> 0,
                speed |-> None, acc |-> None]
    /\ result' = OkUnit
    /\ UNCHANGED <<codecVars, infos, queued_commands, wire, sent, issued>>

SelectPrevious ==
    /\ Alive
    /\ selected_index' = select_previous(selected_index)
    /\ op' = "select_previous"
    /\ args' = [kind |-> "select", servo_index |-> selected_index, value |-> 0,
                speed |-> None, acc |-> None]
    /\ result' = OkUnit
    /\ UNCHANGED <<codecVars, infos, queued_commands, wire, sent, issued>>

MovePosition ==
    \E d \in InfoDeltaInputs :
        /\ Alive
        /\ Len(queued_commands) < MaxMoves
        /\ \E s \in move_position_builds(State, selected_index, d) :
           /\ infos' = s.infos
           /\ queued_commands' = s.queued_commands
           /\ result' = s.ret
        /\ op' = "move_position"
        /\ args' = [kind |-> "rel", servo_index |-> selected_index, value |-> d,
                    speed |-> None, acc |-> None]
        /\ UNCHANGED <<codecVars, wire, auxVars>>

NextInfo == SelectNext \/ SelectPrevious \/ MovePosition

InitSpecInfo == InitCodec /\ InitInfo /\ InitAux

SpecInfo == InitSpecInfo /\ [][NextInfo]_vars

----------------------------------------------------------------------------
(* The telemetry refresh on its own: update passes in which any one read   *)
(* of an actuator may fail, over a device whose registers change between   *)
(* passes.                                                                 *)

(* The register contents after the device has moved.                       *)
MovedDeviceData(f) ==
    CASE f = 1 -> to_le_bytes(200)
      [] f = 2 -> to_le_bytes(6)
      [] f = 3 -> Bytes(<<31>>)
      [] f = 4 -> to_le_bytes(8)
      [] f = 5 -> Bytes(<<121>>)
      [] f = 6 -> to_le_bytes(10)
      [] f = 7 -> Bytes(<<0>>)
      [] f = 8 -> Bytes(<<1>>)

GoodBehaviours(servo_id) ==
    { GoodBehaviour(servo_id),
      [f \in 1..Len(Fields) |->
          Channel(TRUE, TRUE, WellFormedReply(servo_id, 0, MovedDeviceData(f)))] }

(* What the port can do during the eight reads of one actuator: all reads  *)
(* answered, one read failing in read(), or the first read failing in      *)
(* write_all() or answered with a bad header.                              *)
ActuatorBehaviours(servo_id) ==
    UNION {
        {g} \cup {[g EXCEPT ![f] = Channel(TRUE, FALSE, NoBytes)] : f \in 1..Len(Fields)}
            \cup {[g EXCEPT ![1] = Channel(FALSE, FALSE, NoBytes)],
                  [g EXCEPT ![1] = Channel(TRUE, TRUE, Bytes(<<0, 255, servo_id, 2, 0, 252>>))]}
        : g \in GoodBehaviours(servo_id) }

RefreshBehaviours ==
    {c \in [ServoIndexInputs -> UNION {ActuatorBehaviours(servo_ids[i]) : i \in ServoIndexInputs}] :
        \A i \in ServoIndexInputs : c[i] \in ActuatorBehaviours(servo_ids[i])}

(* The read outcomes of one update pass under each behaviour.              *)
RefreshInputs ==
    {[i \in ServoIndexInputs |-> register_reads(ZeroBuffer(BufLen), servo_ids[i], b[i])] :
        b \in RefreshBehaviours}

Refresh ==
    \E b \in RefreshInputs :
        /\ Alive
        /\ \E s \in {update(State, b)} :
           /\ infos' = s.infos
           /\ queued_commands' = s.queued_commands
           /\ result' = s.ret
           /\ wire' = s.wire
        /\ op' = "update"
        /\ args' = b
        /\ UNCHANGED <<codecVars, auxVars>>

SpecUpdate == Init /\ [][Refresh]_vars

----------------------------------------------------------------------------
(* The dispatcher on its own: send_command or write_position called once   *)
(* on a zero-filled buffer, under each behaviour of the channel.           *)

(* The caller's buffer after send_command: the encoded packet, with the    *)
(* bytes read() delivered stored over its start (comm.rs:78, 82).          *)
buffer_after(cmd, buf, ch) ==
    LET w == write_buffer(cmd, buf) IN
    IF w.panic THEN buf
    ELSE IF ch.write_ok /\ ch.read_ok
    THEN [i \in DOMAIN w.buffer |-> IF i < BLen(ch.reply) THEN ch.reply[i] ELSE w.buffer[i]]
    ELSE w.buffer

SendReplyInputs ==
    {WellFormedReply(i, st, d) : i \in {1, 2}, st \in {0, 32}, d \in {NoBytes, to_le_bytes(100)}}
        \cup { WellFormedReply(253, 0, NoBytes),
               Bytes(<<0, 255, 1, 2, 0, 252>>),
               Bytes(<<255, 255, 1>>),
               NoBytes }

SendChannelInputs ==
    {Channel(FALSE, FALSE, NoBytes), Channel(TRUE, FALSE, NoBytes)}
        \cup {Channel(TRUE, TRUE, r) : r \in SendReplyInputs}

SendCommand ==
    \E c \in CommandInputs, ch \in SendChannelInputs :
        /\ fn = "none"
        /\ \E r \in {send_command(c, buffer, ch)} :
           /\ ret' = r.ret
           /\ wire' = r.wire
        /\ fn' = "send_command"
        /\ command' = c
        /\ buffer' = buffer_after(c, buffer, ch)
        /\ args' = [servo_id |-> c.id, position |-> 0, speed |-> None, acc |-> None,
                    channel |-> ch]
        /\ UNCHANGED <<infos, queued_commands, op, result, auxVars>>

WritePosition ==
    \E id \in ServoIdInputs, p \in PositionInputs, sp \in SpeedInputs, a \in AccInputs,
       ch \in SendChannelInputs :
        /\ fn = "none"
        /\ \E r \in {write_position(buffer, id, p, sp, a, ch)} :
           /\ ret' = r.ret
           /\ wire' = r.wire
        /\ fn' = "write_position"
        /\ command' = Write(id, GOAL_POSITION_REGISTER, position_data(p, sp, a))
        /\ buffer' = buffer_after(Write(id, GOAL_POSITION_REGISTER, position_data(p, sp, a)),
                                  buffer, ch)
        /\ args' = [servo_id |-> id, position |-> p, speed |-> sp, acc |-> a, channel |-> ch]
        /\ UNCHANGED <<infos, queued_commands, op, result, auxVars>>

LibSendCommand ==
    \E c \in CommandInputs, ch \in SendChannelInputs :
        /\ fn = "none"
        /\ \E r \in {lib_send_command(c, buffer, ch)} :
           /\ ret' = r.ret
           /\ wire' = r.wire
        /\ fn' = "lib::send_command"
        /\ command' = c
        /\ buffer' = buffer_after(c, buffer, ch)
        /\ args' = [servo_id |-> c.id, position |-> 0, speed |-> None, acc |-> None,
                    channel |-> ch]
        /\ UNCHANGED <<infos, queued_commands, op, result, auxVars>>

(* CommandResponse::is_ok and is_error, comm.rs:123-133.                   *)
is_ok(response) == response.status = 0

is_error(response) ==
    IF is_ok(response) THEN OkUnit ELSE Err("StatusError", response.status, 0)

(* send_ping, comm.rs:156-162.                                             *)
send_ping(buf, servo_id, ch) == send_command(Ping(servo_id), buf, ch)

(* Robot::ping_servo, robot.rs:220-222 (`?`, then is_error).               *)
ping_servo(buf, servo_id, ch) ==
    LET r == send_ping(buf, servo_id, ch) IN
    [ret |-> IF r.ret.tag # "Ok" THEN r.ret ELSE is_error(r.ret), wire |-> r.wire]

(* Robot::move_to_position, robot.rs:200-218.                              *)
move_to_position(buf, servo_id, position, speed, acc, ch) ==
    LET r == write_position(buf, servo_id, position, speed, acc, ch) IN
    [ret |-> IF r.ret.tag # "Ok" THEN r.ret ELSE is_error(r.ret), wire |-> r.wire]

RobotServoIdInputs == {1, 221}

RobotChannelInputs ==
    SendChannelInputs
        \cup {Channel(TRUE, TRUE, WellFormedReply(221, st, NoBytes)) : st \in {0, 32}}

PingServo ==
    \E id \in RobotServoIdInputs, ch \in RobotChannelInputs :
        /\ fn = "none"
        /\ \E r \in {ping_servo(buffer, id, ch)} :
           /\ ret' = r.ret
           /\ wire' = r.wire
        /\ fn' = "ping_servo"
        /\ command' = Ping(id)
        /\ buffer' = buffer_after(Ping(id), buffer, ch)
        /\ args' = [servo_id |-> id, position |-> 0, speed |-> None, acc |-> None,
                    channel |-> ch]
        /\ UNCHANGED <<infos, queued_commands, op, result, auxVars>>

MoveToPosition ==
    \E id \in RobotServoIdInputs, p \in PositionInputs, sp \in SpeedInputs, a \in AccInputs,
       ch \in RobotChannelInputs :
        /\ fn = "none"
        /\ \E r \in {move_to_position(buffer, id, p, sp, a, ch)} :
           /\ ret' = r.ret
           /\ wire' = r.wire
        /\ fn' = "move_to_position"
        /\ command' = Write(id, GOAL_POSITION_REGISTER, position_data(p, sp, a))
        /\ buffer' = buffer_after(Write(id, GOAL_POSITION_REGISTER, position_data(p, sp, a)),
                                  buffer, ch)
        /\ args' = [servo_id |-> id, position |-> p, speed |-> sp, acc |-> a, channel |-> ch]
        /\ UNCHANGED <<infos, queued_commands, op, result, auxVars>>

NextSend == SendCommand \/ LibSendCommand \/ WritePosition \/ PingServo \/ MoveToPosition

SpecSend == Init /\ [][NextSend]_vars

----------------------------------------------------------------------------
(* C1: a reply with a valid header whose checksum byte differs from NOT of *)
(* the mod-256 sum of the bytes id..last payload byte is rejected with     *)
(* ChecksumMismatch.                                                       *)
C1_BadChecksumRejected ==
    (/\ fn = "parse_response"
     /\ BLen(buffer) >= 6
     /\ buffer[0] = 255 /\ buffer[1] = 255
     /\ buffer[3] >= 2
     /\ BLen(buffer) = buffer[3] + 4
     /\ buffer[3 + buffer[3]] # 255 - (SumRange(buffer, 2, 2 + buffer[3]) % 256))
        => (ret.tag = "Err" /\ ret.err = "ChecksumMismatch")

(* C2: every well-formed reply parses to a Reply with the reply's status   *)
(* byte and exactly the bytes between the status and the checksum as data. *)
C2_WellFormedAccepted ==
    \A i \in ServoIdInputs, s \in StatusInputs, d \in DataInputs :
        (fn = "parse_response" /\ buffer = WellFormedReply(i, s, d))
            => (ret.tag = "Ok" /\ ret.status = s /\ ret.data = d)

(* C3: the last byte write_buffer writes is NOT of the mod-256 sum of the  *)
(* encoded bytes from offset 2 to the byte before it, for Ping, Read and   *)
(* Write; the two header bytes are not summed.                             *)
C3_ChecksumIsNotOfSum ==
    fn = "write_buffer"
        => buffer[ret - 1] = 255 - (SumRange(buffer, 2, ret - 2) % 256)

C3_Witness ==
    /\ fn = "write_buffer"
    /\ command.kind = "Write"
    /\ SumRange(buffer, 2, ret - 2) > 255
    /\ buffer[ret - 1] = 255 - (SumRange(buffer, 2, ret - 2) % 256)

(* C4: Write(id, addr, payload) with L in {2,4,6} payload bytes encodes to *)
(* 7+L bytes FF FF id 3+L 03 addr payload checksum; the position example   *)
(* of the test gives its 13 bytes.                                         *)
ExamplePayload == Bytes(<<0, 8, 0, 0, 232, 3>>)
ExamplePacket == Bytes(<<255, 255, 1, 9, 3, 42, 0, 8, 0, 0, 232, 3, 213>>)

C4_WriteLayout ==
    (fn = "write_buffer" /\ command.kind = "Write" /\ BLen(command.data) \in {2, 4, 6})
        => LET L == BLen(command.data) IN
           /\ ret = 7 + L
           /\ Slice(buffer, 0, 6) = Bytes(<<255, 255, command.id, 3 + L, 3, command.addr>>)
           /\ Slice(buffer, 6, 6 + L) = command.data
           /\ buffer[6 + L] = 255 - (SumRange(buffer, 2, 5 + L) % 256)
           /\ (command = Write(1, 42, ExamplePayload) => Slice(buffer, 0, ret) = ExamplePacket)

C4_Witness ==
    /\ fn = "write_buffer"
    /\ command = Write(1, 42, ExamplePayload)
    /\ ret = 13
    /\ Slice(buffer, 0, 13) = ExamplePacket

(* C5: Read(id, addr, n) encodes to the 8 bytes FF FF id 04 02 addr n      *)
(* checksum and Ping(id) to the 6 bytes FF FF id 02 01 checksum; the       *)
(* length field counts the bytes after it up to and with the checksum.     *)
C5_ReadPingLayout ==
    fn = "write_buffer" =>
        /\ command.kind = "Read" =>
              /\ ret = 8
              /\ Slice(buffer, 0, 7)
                   = Bytes(<<255, 255, command.id, 4, 2, command.addr, command.reply_length>>)
              /\ buffer[7] = 255 - (SumRange(buffer, 2, 6) % 256)
        /\ command.kind = "Ping" =>
              /\ ret = 6
              /\ Slice(buffer, 0, 5) = Bytes(<<255, 255, command.id, 2, 1>>)
              /\ buffer[5] = 255 - (SumRange(buffer, 2, 4) % 256)
        /\ buffer[3] = ret - 4

C5_Witness ==
    /\ fn = "write_buffer"
    /\ command = Read(2, 56, 2)
    /\ ret = 8
    /\ Slice(buffer, 0, 8) = Bytes(<<255, 255, 2, 4, 2, 56, 2, 189>>)

(* C6: a reply of two or more bytes that does not start FF FF fails with   *)
(* InvalidHeader, whatever follows (a correct checksum included).          *)
C6_InvalidHeader ==
    (fn = "parse_response" /\ BLen(buffer) >= 2 /\ ~(buffer[0] = 255 /\ buffer[1] = 255))
        => ret = Err("InvalidHeader", buffer[0], buffer[1])

C6_Witness ==
    /\ fn = "parse_response"
    /\ BLen(buffer) >= 6
    /\ buffer[0] = 255 /\ buffer[1] # 255
    /\ BLen(buffer) = buffer[3] + 4
    /\ buffer[3 + buffer[3]] = 255 - (SumRange(buffer, 2, 2 + buffer[3]) % 256)
    /\ ret = Err("InvalidHeader", 255, buffer[1])

(* Names for the steps of the machine.                                     *)
EnqueueOps == {"send_absolute_move_command", "send_relative_move_command"}
WriteCalls(w) == {i \in DOMAIN w : w[i].call = "write_all"}
ReadCalls(w) == {i \in DOMAIN w : w[i].call = "read"}

(* C7: with 16 commands queued, send_absolute_move_command and             *)
(* send_relative_move_command return CommandOverflow and the queue keeps   *)
(* its length and its commands in their order.                             *)
C7_OverflowLeavesQueue ==
    [][(op' \in EnqueueOps /\ Len(queued_commands) = COMMAND_QUEUE_SIZE)
          => (/\ result' = Err("CommandOverflow", 0, 0)
              /\ queued_commands' = queued_commands
              /\ Len(queued_commands') = COMMAND_QUEUE_SIZE)]_vars

C7_Witness ==
    /\ op = "send_relative_move_command"
    /\ result = Err("CommandOverflow", 0, 0)
    /\ Len(queued_commands) = COMMAND_QUEUE_SIZE
    /\ args.servo_index = 1

(* C8: the queue never holds more than 16 commands; an enqueue that        *)
(* succeeds makes it one longer, and every enqueue keeps the commands      *)
(* already queued, in place.                                               *)
C8_QueueBounded ==
    [][/\ Len(queued_commands) <= COMMAND_QUEUE_SIZE
       /\ Len(queued_commands') <= COMMAND_QUEUE_SIZE
       /\ op' \in EnqueueOps =>
             /\ Len(queued_commands') >= Len(queued_commands)
             /\ SubSeq(queued_commands', 1, Len(queued_commands)) = queued_commands
             /\ result'.tag = "Ok" => Len(queued_commands') = Len(queued_commands) + 1
             /\ result'.tag # "Ok" => queued_commands' = queued_commands]_vars

C8_Witness ==
    /\ op = "send_absolute_move_command"
    /\ result = OkUnit
    /\ Len(queued_commands) = COMMAND_QUEUE_SIZE
    /\ queued_commands[1].id = 2

(* C9: process_queued_commands on an empty queue returns Ok, calls neither *)
(* write nor read on the channel and changes neither the queue nor any     *)
(* ServoInfo.                                                              *)
C9_EmptyQueueNoOp ==
    [][(op' = "process_queued_commands" /\ queued_commands = << >>)
          => (/\ result' = OkUnit
              /\ wire' = << >>
              /\ queued_commands' = << >>
              /\ infos' = infos)]_vars

C9_Witness ==
    /\ op = "process_queued_commands"
    /\ queued_commands = << >>
    /\ wire = << >>
    /\ result = OkUnit
    /\ infos[0].position = 100
    /\ infos[1].goal_position = 2148

(* C10: with k >= 1 commands queued, one process_queued_commands call      *)
(* takes one command off the queue (k-1 remain) and makes one write call   *)
(* on the channel, carrying one Write instruction, however large k is.     *)
C10_OneCommandPerTick ==
    [][(op' = "process_queued_commands" /\ Len(queued_commands) >= 1)
          => (/\ Len(queued_commands') = Len(queued_commands) - 1
              /\ Cardinality(WriteCalls(wire')) = 1
              /\ wire'[1].call = "write_all"
              /\ wire'[1].bytes[4] = WRITE_DATA_ID)]_vars

C10_Witness ==
    /\ op = "process_queued_commands"
    /\ Len(queued_commands) = COMMAND_QUEUE_SIZE - 1
    /\ Cardinality(WriteCalls(wire)) = 1
    /\ wire[1].bytes[4] = WRITE_DATA_ID
    /\ result = OkUnit

(* C11: process_queued_commands sends the command enqueued last among      *)
(* those still queued, and the commands that remain keep their order.      *)
C11_LastInFirstOut ==
    [][(op' = "process_queued_commands" /\ Len(queued_commands) >= 1)
          => LET newest == queued_commands[Len(queued_commands)] IN
             /\ wire' # << >>
             /\ wire'[1].call = "write_all"
             /\ wire'[1].bytes[2] = newest.id
             /\ wire'[1].bytes[5] = GOAL_POSITION_REGISTER
             /\ wire'[1].bytes[6] + 256 * wire'[1].bytes[7] = newest.position
             /\ queued_commands' = SubSeq(queued_commands, 1, Len(queued_commands) - 1)]_vars

C11_Witness ==
    /\ op = "process_queued_commands"
    /\ issued = 3
    /\ Len(sent) = 2
    /\ sent[1].position = 3 /\ sent[2].position = 2
    /\ Len(queued_commands) = 1
    /\ queued_commands[1].position = 1

(* C12: a flush that fails returns its error (WriteError, ReadError, the   *)
(* decoder's error, or StatusError with the decoded nonzero status) and    *)
(* still consumes the command: no command that went out is in the queue,   *)
(* none goes out twice, and every enqueued command is queued or went out.  *)
C12_FailedFlushConsumes ==
    /\ \A k \in DOMAIN sent : \A q \in DOMAIN queued_commands :
           queued_commands[q].position # sent[k].position
    /\ \A j \in DOMAIN sent : \A k \in DOMAIN sent :
           sent[j].position = sent[k].position => j = k
    /\ Len(sent) + Len(queued_commands) = issued
    /\ (op = "process_queued_commands" /\ wire # << >> /\ Alive) =>
          /\ ~args.write_ok => result = Err("WriteError", 0, 0)
          /\ (args.write_ok /\ ~args.read_ok) => result = Err("ReadError", 0, 0)
          /\ (args.write_ok /\ args.read_ok) =>
                LET d == parse_response(args.reply) IN
                /\ d.tag = "Err" => (result = d /\ d.err \in {"InvalidHeader", "ChecksumMismatch"})
                /\ (d.tag = "Ok" /\ d.status # 0) => result = Err("StatusError", d.status, 0)

C12_Witness ==
    /\ op = "process_queued_commands"
    /\ result = Err("StatusError", 32, 0)
    /\ Len(sent) = 3
    /\ ~sent[1].ok /\ ~sent[2].ok /\ ~sent[3].ok
    /\ queued_commands = << >>
    /\ issued = 3

(* C13: from a cached goal g in 0..4095 a relative move by any delta d     *)
(* stores the Euclidean remainder of g + d modulo 4096 as goal_position    *)
(* and enqueues a command with that position.                              *)
C13_RelativeMoveEuclid ==
    [][(op' = "send_relative_move_command"
           /\ infos[args'.servo_index].goal_position \in 0..4095)
          => LET i == args'.servo_index
                 n == (infos[i].goal_position + args'.value) % 4096 IN
             /\ n \in 0..4095
             /\ result' = OkUnit
             /\ infos'[i].goal_position = n
             /\ queued_commands'
                  = Append(queued_commands, ServoPositionCommand(servo_ids[i], n, None, None))]_vars

(* The sums that stay within i16 give the claimed goals, 100 -> 10 ->      *)
(* 4086 -> 10 among them.                                                  *)
C13_WithinI16 ==
    [][(op' = "send_relative_move_command"
           /\ infos[args'.servo_index].goal_position \in 0..4095
           /\ infos[args'.servo_index].goal_position + args'.value \in -32768..32767)
          => LET i == args'.servo_index
                 n == (infos[i].goal_position + args'.value) % 4096 IN
             /\ result' = OkUnit
             /\ infos'[i].goal_position = n
             /\ queued_commands'
                  = Append(queued_commands, ServoPositionCommand(servo_ids[i], n, None, None))]_vars

C13_Example ==
    /\ op = "send_relative_move_command"
    /\ Len(queued_commands) = 3
    /\ queued_commands[1].position = 10
    /\ queued_commands[2].position = 4086
    /\ queued_commands[3].position = 10
    /\ infos[0].position = 100 /\ infos[0].goal_position = 10

(* C14: move_position(delta) leaves the selected actuator's `position`     *)
(* equal to its previous position plus delta modulo 4096 (100 -> 10 ->     *)
(* 4086 -> 10 in the test).                                                *)
C14_MovePositionMovesPosition ==
    [][op' = "move_position"
          => infos'[selected_index].position
               = (infos[selected_index].position + args'.value) % 4096]_vars

(* C15: when the position read (the first read) of an actuator fails with  *)
(* a transport error during update, that actuator's ServoInfo is left as   *)
(* it was before the call, and the following actuators are still           *)
(* refreshed.                                                              *)
C15_FailedFirstReadKeepsCache ==
    [][op' = "update"
          => \A i \in ServoIndexInputs :
                (args'[i][1].ret.tag = "Err" /\ args'[i][1].ret.err \in {"WriteError", "ReadError"})
                   => /\ infos'[i] = infos[i]
                      /\ \A j \in ServoIndexInputs :
                            (j > i /\ args'[j][1].ret.tag = "Ok")
                               => infos'[j].position = args'[j][1].ret.a]_vars

(* C16: in an update pass, a register read after the first that fails      *)
(* gives its field the fallback (0 for speed, temperature, load, voltage   *)
(* and current, false for is_moving, true for has_error) and every field   *)
(* whose read succeeded holds the value read in this pass.                 *)
C16_PartialFailureFallback ==
    (op = "update" /\ Alive) =>
        \A i \in ServoIndexInputs :
            LET rd == args[i]
                ok(f) == rd[f].ret.tag = "Ok" IN
            /\ ok(1) => (infos[i].position = rd[1].ret.a /\ infos[i].goal_position = rd[1].ret.a)
            /\ infos[i].speed = IF ok(2) THEN rd[2].ret.a ELSE 0
            /\ infos[i].temperature = IF ok(3) THEN rd[3].ret.a ELSE 0
            /\ infos[i].load = IF ok(4) THEN rd[4].ret.a ELSE 0
            /\ infos[i].voltage = IF ok(5) THEN rd[5].ret.a ELSE 0
            /\ infos[i].current = IF ok(6) THEN rd[6].ret.a ELSE 0
            /\ infos[i].is_moving = IF ok(7) THEN rd[7].ret.a # 0 ELSE FALSE
            /\ infos[i].has_error = IF ok(8) THEN rd[8].ret.a # 0 ELSE TRUE
            /\ infos[i].id = servo_ids[i]

C16_Witness ==
    /\ op = "update"
    /\ args[0][4].ret = Err("ReadError", 0, 0)
    /\ args[1][8].ret = Err("ReadError", 0, 0)
    /\ infos[0] = [id |-> 1, position |-> 200, goal_position |-> 200, speed |-> 6,
                   temperature |-> 31, load |-> 0, voltage |-> 121, current |-> 10,
                   is_moving |-> FALSE, has_error |-> TRUE]
    /\ infos[1] = [id |-> 2, position |-> 100, goal_position |-> 100, speed |-> 5,
                   temperature |-> 30, load |-> 7, voltage |-> 120, current |-> 9,
                   is_moving |-> TRUE, has_error |-> TRUE]

(* C17: send_command makes one write_all call carrying the whole encoded   *)
(* packet, then at most one read call; no read after a failed write, and   *)
(* no second write whatever fails.                                         *)
C17_OneWriteThenOneRead ==
    fn \in {"send_command", "write_position"} =>
        LET encoded == write_buffer(command, ZeroBuffer(BufLen)) IN
        /\ Len(wire) >= 1
        /\ wire[1].call = "write_all"
        /\ wire[1].bytes = Slice(encoded.buffer, 0, encoded.len)
        /\ BLen(wire[1].bytes) = wire[1].bytes[3] + 4
        /\ Cardinality(WriteCalls(wire)) = 1
        /\ Cardinality(ReadCalls(wire)) <= 1
        /\ ~args.channel.write_ok => wire = <<wire[1]>>
        /\ args.channel.write_ok => (Len(wire) = 2 /\ wire[2].call = "read")

C17_Witness ==
    /\ fn = "send_command"
    /\ command = Read(2, POSITION_REGISTER, 2)
    /\ ret.tag = "Err" /\ ret.err = "InvalidHeader"
    /\ Len(wire) = 2
    /\ wire[1].bytes = Bytes(<<255, 255, 2, 4, 2, 56, 2, 189>>)
    /\ wire[2].call = "read"

(* C18: send_command returns WriteError for a failed write, ReadError for  *)
(* a failed read, InvalidHeader or ChecksumMismatch for a reply that does  *)
(* not decode; every failure is an error value and none aborts.            *)
C18_FailuresAreErrors ==
    fn \in {"send_command", "lib::send_command"} =>
        /\ ~args.channel.write_ok => ret = Err("WriteError", 0, 0)
        /\ (args.channel.write_ok /\ ~args.channel.read_ok) => ret = Err("ReadError", 0, 0)
        /\ ret.tag = "Err"
              => ret.err \in {"WriteError", "ReadError", "InvalidHeader", "ChecksumMismatch"}
        /\ ret.tag \in {"Ok", "Err"}

(* C19: write_position sends a Write to register 0x2A whose payload is the *)
(* position, then the speed when present, then the acceleration when       *)
(* present, each as 2 little-endian bytes: 2, 4 or 6 bytes.                *)
C19_PositionPayload ==
    fn = "write_position" =>
        LET data == command.data
            next == IF args.speed.some THEN 4 ELSE 2
            packet == wire[1].bytes IN
        /\ command.kind = "Write" /\ command.id = args.servo_id /\ command.addr = 42
        /\ data[0] = args.position % 256 /\ data[1] = args.position \div 256
        /\ args.speed.some => (data[2] = args.speed.v % 256 /\ data[3] = args.speed.v \div 256)
        /\ args.acc.some => (data[next] = args.acc.v % 256 /\ data[next + 1] = args.acc.v \div 256)
        /\ BLen(data) = 2 + (IF args.speed.some THEN 2 ELSE 0) + (IF args.acc.some THEN 2 ELSE 0)
        /\ (~args.speed.some /\ ~args.acc.some) => BLen(data) = 2
        /\ (args.speed.some /\ ~args.acc.some) => BLen(data) = 4
        /\ (args.speed.some /\ args.acc.some) => BLen(data) = 6
        /\ packet[4] = WRITE_DATA_ID /\ packet[5] = 42
        /\ Slice(packet, 6, 6 + BLen(data)) = data
        /\ BLen(packet) = 7 + BLen(data)

C19_Witness ==
    /\ fn = "write_position"
    /\ args.position = 2048 /\ args.speed = Some(1000) /\ args.acc = Some(1000)
    /\ args.servo_id = 1
    /\ wire[1].bytes = Bytes(<<255, 255, 1, 9, 3, 42, 0, 8, 232, 3, 232, 3, 234>>)
    /\ ret = OkResponse(1, 0, NoBytes)

(* C20: in a packet of write_position an acceleration occupies payload     *)
(* offsets 4..6 behind a speed at offsets 2..4; acceleration bytes are     *)
(* never at offsets 2..4, speed absent and acceleration present included.  *)
C20_AccelerationAfterSpeed ==
    (fn = "write_position" /\ args.acc.some) =>
        LET data == Slice(wire[1].bytes, 6, BLen(wire[1].bytes) - 1) IN
        /\ BLen(data) = 6
        /\ data[4] = args.acc.v % 256 /\ data[5] = args.acc.v \div 256
        /\ args.speed.some => (data[2] = args.speed.v % 256 /\ data[3] = args.speed.v \div 256)
        /\ ~args.speed.some => ~(data[2] = args.acc.v % 256 /\ data[3] = args.acc.v \div 256)

IsWellFormed(r) ==
    /\ BLen(r) >= 6
    /\ r[0] = 255 /\ r[1] = 255
    /\ r[3] = BLen(r) - 4
    /\ r[BLen(r) - 1] = 255 - (SumRange(r, 2, BLen(r) - 2) % 256)

(* C22: Robot::ping_servo and Robot::move_to_position return Ok exactly    *)
(* when the decoded reply has status 0, and StatusError(s) with the        *)
(* reply's status byte s whenever a well-formed reply has s # 0.           *)
C22_StatusDecidesResult ==
    fn \in {"ping_servo", "move_to_position"} =>
        LET ch == args.channel
            answered == ch.write_ok /\ ch.read_ok IN
        /\ ret = OkUnit <=> (/\ answered
                             /\ parse_response(ch.reply).tag = "Ok"
                             /\ parse_response(ch.reply).status = 0)
        /\ (answered /\ IsWellFormed(ch.reply) /\ ch.reply[4] # 0)
              => ret = Err("StatusError", ch.reply[4], 0)

(* C23: an enqueue for actuator index i changes infos[i] only and appends  *)
(* one command whose id is servo_ids[i]; the other actuators' ServoInfo    *)
(* and the commands already queued stay as they were.                      *)
C23_EnqueueTouchesOneActuator ==
    [][op' \in EnqueueOps
          => LET i == args'.servo_index IN
             /\ \A j \in ServoIndexInputs : j # i => infos'[j] = infos[j]
             /\ SubSeq(queued_commands', 1, Len(queued_commands)) = queued_commands
             /\ result' = OkUnit =>
                   /\ Len(queued_commands') = Len(queued_commands) + 1
                   /\ queued_commands'[Len(queued_commands')].id = servo_ids[i]
                   /\ queued_commands'[Len(queued_commands')].position
                        = infos'[i].goal_position
             /\ result' # OkUnit => queued_commands' = queued_commands]_vars

C23_Witness ==
    /\ op = "send_absolute_move_command"
    /\ args.servo_index = 1
    /\ result = OkUnit
    /\ Len(queued_commands) = 3
    /\ queued_commands[1] = ServoPositionCommand(1, 10, None, None)
    /\ queued_commands[2] = ServoPositionCommand(2, 80, None, None)
    /\ queued_commands[3] = ServoPositionCommand(2, 2048, None, None)
    /\ infos[0].goal_position = 10 /\ infos[0].position = 100
    /\ infos[1].goal_position = 2048 /\ infos[1].position = 100

(* C24: an update pass that returns addresses the actuators in index      *)
(* order and sends each of them eight Read packets, for the registers      *)
(* position, speed, temperature, load, voltage, current, moving, status in *)
(* that order, whichever of the reads fail.                                *)
C24_RegisterOrder ==
    << POSITION_REGISTER, SPEED_REGISTER, TEMPERATURE_REGISTER, LOAD_REGISTER,
       VOLTAGE_REGISTER, CURRENT_REGISTER, MOVING_REGISTER, STATUS_REGISTER >>

C24_UpdateReadsEverything ==
    (op = "update" /\ Alive) =>
        LET IsWrite(c) == c.call = "write_all"
            written == SelectSeq(wire, IsWrite)
            n == Len(C24_RegisterOrder) IN
        /\ Len(written) = n * BLen(servo_ids)
        /\ \A i \in ServoIndexInputs, f \in 1..n :
              LET packet == written[i * n + f].bytes IN
              /\ packet[2] = servo_ids[i]
              /\ packet[4] = 2
              /\ packet[5] = C24_RegisterOrder[f]
        /\ \A k \in DOMAIN wire :
              wire[k].call = "read" => (k > 1 /\ wire[k - 1].call = "write_all")

C24_Witness ==
    /\ op = "update"
    /\ result = OkUnit
    /\ args[0][1].ret = Err("WriteError", 0, 0)
    /\ args[1][4].ret = Err("ReadError", 0, 0)
    /\ Len(wire) = 31
    /\ wire[2].bytes[2] = 1 /\ wire[2].bytes[5] = SPEED_REGISTER
    /\ wire[31].call = "read" /\ wire[30].bytes[2] = 2 /\ wire[30].bytes[5] = STATUS_REGISTER

(* C25: whatever bytes a read delivered (none, fewer than five, a length   *)
(* byte below 2 or pointing past the bytes received), parse_response       *)
(* returns a Reply or an error value and indexes no byte outside them.     *)
C25_DecodeStaysInBounds ==
    fn = "parse_response" => ret.tag \in {"Ok", "Err"}

(* C26: an enqueue refused with CommandOverflow leaves the ServoState as   *)
(* it was, the addressed actuator's goal_position included.                *)
C26_OverflowChangesNothing ==
    [][(op' \in EnqueueOps /\ result' = Err("CommandOverflow", 0, 0))
          => (infos' = infos /\ queued_commands' = queued_commands)]_vars

(* C27: when the commands were all enqueued before the first flush, every  *)
(* flush returned Ok and the queue is empty again, the last packet sent to *)
(* an actuator carries that actuator's cached goal_position.  (Positions   *)
(* are issue numbers, so sent[1].position = issued says that the first     *)
(* flush came after the last enqueue.)                                     *)
C27_LastPacketIsGoal ==
    (/\ sent # << >>
     /\ queued_commands = << >>
     /\ Len(sent) = issued
     /\ sent[1].position = issued
     /\ \A k \in DOMAIN sent : sent[k].ok)
        => \A i \in ServoIndexInputs :
              LET mine == {k \in DOMAIN sent : sent[k].id = servo_ids[i]} IN
              mine # {} =>
                 \E last \in mine :
                    /\ \A k \in mine : k <= last
                    /\ sent[last].position = infos[i].goal_position

(* C28: every call of process_queued_commands on a non-empty queue        *)
(* shortens it by exactly one command, whatever the flush returns, and a   *)
(* call on an empty queue leaves it empty; so k queued commands are gone   *)
(* after exactly k calls and no call lengthens the queue.                  *)
C28_EachTickPopsOne ==
    [][op' = "process_queued_commands"
          => /\ Len(queued_commands') =
                   IF Len(queued_commands) = 0 THEN 0 ELSE Len(queued_commands) - 1
             /\ queued_commands' = SubSeq(queued_commands, 1, Len(queued_commands'))]_vars

C28_Witness ==
    /\ op = "process_queued_commands"
    /\ issued = 3
    /\ Len(sent) = 3
    /\ sent[1].position = 3 /\ sent[1].ok
    /\ sent[2].position = 2 /\ ~sent[2].ok
    /\ sent[3].position = 1
    /\ result = Err("WriteError", 0, 0)
    /\ queued_commands = << >>

(* C29: after an update that returns, every actuator's goal_position      *)
(* equals its position, whatever goal earlier moves had stored and whether *)
(* or not their commands are still queued; a relative move that follows    *)
(* the update directly is computed from that position.                     *)
C29_RefreshResetsGoal ==
    [][/\ (op' = "update" /\ result'.tag # "Panic")
            => \A i \in ServoIndexInputs : infos'[i].goal_position = infos'[i].position
       /\ (op = "update" /\ result.tag # "Panic"
              /\ op' = "send_relative_move_command" /\ result' = OkUnit)
            => LET i == args'.servo_index IN
               /\ infos'[i].goal_position = (infos[i].position + args'.value) % POSITION_MODULUS
               /\ queued_commands'[Len(queued_commands')].position = infos'[i].goal_position]_vars

C29_Witness ==
    /\ op = "update"
    /\ result = OkUnit
    /\ Len(queued_commands) = 1
    /\ queued_commands[1] = ServoPositionCommand(1, 2048, None, None)
    /\ infos[0].position = 100 /\ infos[0].goal_position = 100
    /\ infos[1].position = 0 /\ infos[1].goal_position = 0 /\ infos[1].speed = 5

(* C30: from any goal_position a u16 can hold and any delta of the i16     *)
(* range, send_relative_move_command returns without signed overflow and   *)
(* leaves goal_position in 0..4095, equal to (goal_position + delta)       *)
(* modulo 4096.                                                            *)
C30_NoSignedOverflow ==
    [][op' = "send_relative_move_command"
          => LET i == args'.servo_index
                 g == infos[i].goal_position
                 d == args'.value IN
             /\ g \in 0..65535 /\ d \in -32768..32767
             /\ result'.tag # "Panic"
             /\ infos'[i].goal_position \in 0..4095
             /\ infos'[i].goal_position = (g + d) % POSITION_MODULUS]_vars

(* C31: send_command returns a Reply only when the id byte of the reply   *)
(* is the id of the instruction it sent; a well-formed reply from another  *)
(* actuator is not accepted.                                               *)
C31_ReplyIdMatchesRequest ==
    (fn = "send_command" /\ ret.tag = "Ok") => ret.id = command.id

(* C32: whatever select_next and select_previous calls were made,         *)
(* selected_index is an index of servo_ids; select_next at the last index  *)
(* and select_previous at 0 leave it where it was, and elsewhere they move *)
(* it by one.  (args.servo_index is the index the call started from.)      *)
C32_SelectionStaysInRange ==
    LET N == BLen(servo_ids) IN
    /\ selected_index \in 0..(N - 1)
    /\ op = "select_next" =>
          selected_index = IF args.servo_index = N - 1 THEN N - 1 ELSE args.servo_index + 1
    /\ op = "select_previous" =>
          selected_index = IF args.servo_index = 0 THEN 0 ELSE args.servo_index - 1
    /\ (op = "move_position" /\ result = OkUnit) =>
          queued_commands[Len(queued_commands)].id = servo_ids[selected_index]

C32_Witness ==
    /\ op = "select_previous"
    /\ args.servo_index = 0
    /\ selected_index = 0
    /\ Len(queued_commands) = 2
    /\ queued_commands[1].id = 1
    /\ queued_commands[2].id = 2

====
